---- MODULE Spec2Model ----
(***************************************************************************)
(* Model of the Hindsight memory plugin                                    *)
(* (src/extensions/hindsight-memory/index.ts): the HindsightClient, the    *)
(* tools hindsight_recall and hindsight_retain, and the lifecycle hooks    *)
(* before_agent_start (auto-recall) and agent_end (auto-retain).           *)
(*                                                                         *)
(* A text is a sequence of tokens.  A token is either one character of a   *)
(* caller-supplied string (so that trim, length and slice are computed     *)
(* character by character) or one literal piece of a template string of    *)
(* the source.  A handler invocation runs in a slot; the host may run      *)
(* several invocations at once, interleaved at their awaits.               *)
(***************************************************************************)
EXTENDS Integers, Sequences, FiniteSets, TLC

\* ------------------------------------------------------------------ bounds
\* Longest message list of an agent_end event (sequential specification).
MaxMsgs == 2
\* Longest result list the remote store answers a recall with.
MaxResults == 6
\* Number of invocations the host may interleave (concurrent specification).
NSlots == 2

\* ------------------------------------------------------- program constants
\* content.trim().length > 10 and text.trim().length > 10
MinLen == 10
\* toRetain.slice(0, 5)
MaxRetain == 5
\* response.results.slice(0, 5)
MaxInject == 5
\* event.prompt.length < 10
MinPrompt == 10
\* content.slice(0, 100), content.length > 100
EchoLen == 100
\* max_tokens: options?.maxTokens ?? 2000
DefaultMaxTokens == 2000
\* client.recall(event.prompt, { maxTokens: 1500 })
HookMaxTokens == 1500

\* ------------------------------------------------------------------- state
VARIABLES
  pluginConfig, \* api.pluginConfig, as the host supplies it
  cfg,       \* the parsed plugin configuration (line 113), never changed
  kind,      \* per slot: the handler running in it, or "idle"
  pc,        \* per slot: "idle", "await" (suspended on a request) or "done"
  event,     \* per slot: the event or the tool parameters it was called with
  toRetain,  \* per slot: the local toRetain of the agent_end handler
  retained,  \* per slot: the local retained of the agent_end handler
  net,       \* per slot: the requests the invocation has issued, in order
  log,       \* per slot: the lines the invocation gave to api.logger
  result     \* per slot: how the invocation completed and what it returned

vars == <<pluginConfig, cfg, kind, pc, event, toRetain, retained, net, log, result>>

\* ------------------------------------------------------------------- texts
\* Lines 312, 324: what String.prototype.trim strips, the WhiteSpace and
\* LineTerminator characters of ECMAScript.  A character that has no escape
\* in a TLA+ string is written as the name of its code point and is one
\* token, as every character of a text is.
WhiteSpace ==
  {"\t", "\n", "U+000B", "\f", "\r", " ", "U+00A0", "U+1680",
   "U+2000", "U+2001", "U+2002", "U+2003", "U+2004", "U+2005", "U+2006",
   "U+2007", "U+2008", "U+2009", "U+200A", "U+2028", "U+2029", "U+202F",
   "U+205F", "U+3000", "U+FEFF"}

Rep(c, n) == [i \in 1..n |-> c]

Min(a, b) == IF a < b THEN a ELSE b

RECURSIVE TrimStart(_)
TrimStart(s) ==
  IF s = <<>> THEN s
  ELSE IF Head(s) \in WhiteSpace THEN TrimStart(Tail(s)) ELSE s

RECURSIVE TrimEnd(_)
TrimEnd(s) ==
  IF s = <<>> THEN s
  ELSE IF s[Len(s)] \in WhiteSpace THEN TrimEnd(SubSeq(s, 1, Len(s) - 1)) ELSE s

\* String.prototype.trim
Trim(s) == TrimEnd(TrimStart(s))

\* String.prototype.slice(0, n) and Array.prototype.slice(0, n), n >= 0
Slice(s, n) == SubSeq(s, 1, Min(n, Len(s)))

\* t occurs in s as a contiguous run of tokens
Contains(s, t) ==
  \E i \in 0..(Len(s) - Len(t)) : SubSeq(s, i + 1, i + Len(t)) = t

\* An optional value: <<>> is undefined, <<v>> is the value v.
None == <<>>
Some(v) == <<v>>

\* ---------------------------------------------------------------- messages
\* A value of unknown type holding a string, nothing, or something else.
StrVal(s) == [tag |-> "string", val |-> s]
Absent == [tag |-> "absent", val |-> <<>>]
OtherVal == [tag |-> "other", val |-> <<>>]

\* A content block: an object with an optional type and an optional text.
Block(type, text) == [isObject |-> TRUE, type |-> type, text |-> text]
NullBlock == [isObject |-> FALSE, type |-> None, text |-> Absent]

\* A message content: a string, an array of blocks, or anything else.
StrContent(s) == [tag |-> "string", str |-> s, blocks |-> <<>>]
ArrContent(bs) == [tag |-> "array", str |-> <<>>, blocks |-> bs]
OtherContent == [tag |-> "other", str |-> <<>>, blocks |-> <<>>]

Message(role, content) == [isObject |-> TRUE, role |-> role, content |-> content]
NullMessage == [isObject |-> FALSE, role |-> "", content |-> OtherContent]

\* Lines 315-328: the texts pushed for the blocks of an array content.
RECURSIVE BlockTexts(_)
BlockTexts(blocks) ==
  IF blocks = <<>> THEN <<>>
  ELSE LET block == Head(blocks)
           text == block.text
       IN (IF /\ block.isObject
              /\ block.type = Some("text")
              /\ text.tag # "absent"
              /\ text.tag = "string"
              /\ Len(Trim(text.val)) > MinLen
           THEN <<Trim(text.val)>>
           ELSE <<>>) \o BlockTexts(Tail(blocks))

\* RoleRetained without the role test.
RoleRetainedAny(role) == TRUE

\* The role test of line 309.
RoleRetained(role) == role = "user"

\* MessageTexts without the length test on a plain-string content.
MessageTextsAnyLength(msg) ==
  IF ~msg.isObject THEN <<>>
  ELSE IF ~RoleRetained(msg.role) THEN <<>>
  ELSE IF msg.content.tag = "string" THEN <<Trim(msg.content.str)>>
  ELSE IF msg.content.tag = "array" THEN BlockTexts(msg.content.blocks)
  ELSE <<>>

\* Lines 304-329: the texts pushed for one message.
MessageTexts(msg) ==
  IF ~msg.isObject THEN <<>>
  ELSE IF ~RoleRetained(msg.role) THEN <<>>
  ELSE IF msg.content.tag = "string" /\ Len(Trim(msg.content.str)) > MinLen
       THEN <<Trim(msg.content.str)>>
  ELSE IF msg.content.tag = "array" THEN BlockTexts(msg.content.blocks)
  ELSE <<>>

\* Extract with the texts of later messages put first.
RECURSIVE ExtractNewestFirst(_)
ExtractNewestFirst(messages) ==
  IF messages = <<>> THEN <<>>
  ELSE ExtractNewestFirst(Tail(messages)) \o MessageTexts(Head(messages))

\* Lines 301-330: toRetain after the extraction loop.
RECURSIVE Extract(_)
Extract(messages) ==
  IF messages = <<>> THEN <<>>
  ELSE MessageTexts(Head(messages)) \o Extract(Tail(messages))

\* ToSubmit with the texts dropped that some invocation already stored.
ToSubmitUnseen(texts) ==
  Slice(SelectSeq(texts,
                  LAMBDA c : ~\E t \in DOMAIN net : \E i \in DOMAIN net[t] :
                                /\ net[t][i].response.type = "ok"
                                /\ net[t][i].body.op = "retain"
                                /\ net[t][i].body.items[1].content = c),
        MaxRetain)

\* ToSubmit without the slice: every candidate is submitted.
ToSubmitAll(texts) == texts

\* Line 334: toRetain.slice(0, 5), the contents the pass submits.
ToSubmit(texts) == Slice(texts, MaxRetain)

\* ----------------------------------------------------------- configuration
\* Lines 18-24: configSchema.parse, the defaults filled in.
Default(opt, dflt) == IF opt = None THEN dflt ELSE opt[1]

configSchema(raw) ==
  [baseUrl    |-> Default(raw.baseUrl, "http://localhost:8001"),
   bankId     |-> Default(raw.bankId, "aletheia"),
   apiKey     |-> raw.apiKey,
   autoRetain |-> Default(raw.autoRetain, TRUE),
   autoRecall |-> Default(raw.autoRecall, FALSE)]

\* The plugin configurations the host may supply (api.pluginConfig).
PluginConfigs ==
  [baseUrl    : {None},
   bankId     : {None},
   apiKey     : {None, Some(""), Some("s3cret")},
   autoRetain : {None, Some(TRUE), Some(FALSE)},
   autoRecall : {None, Some(TRUE), Some(FALSE)}]

\* ------------------------------------------------------------------ client
\* HasApiKey that takes every configured string for a credential.
HasApiKeyDefined(apiKey) == apiKey # None

\* Line 47: if (this.apiKey), the truthiness of an optional string.
HasApiKey(apiKey) == apiKey # None /\ apiKey[1] # ""

\* Lines 44-49: the headers of a request.
Headers(apiKey) ==
  [ContentType   |-> "application/json",
   Authorization |-> IF HasApiKey(apiKey)
                     THEN Some(<<"Bearer ", apiKey[1]>>)
                     ELSE None]

\* What the transport and the remote store answer a request with: a
\* transport failure, a non-success status with a body text, a success
\* status whose body is not JSON, or a success status with a JSON body.
Transport == [type |-> "transport", status |-> 0, text |-> <<>>, json |-> <<>>]
Status(status, text) ==
  [type |-> "status", status |-> status, text |-> text, json |-> <<>>]
BadJson(text) ==
  [type |-> "badjson", status |-> 200, text |-> text, json |-> <<>>]
Ok(json) == [type |-> "ok", status |-> 200, text |-> <<>>, json |-> json]

\* A JSON body: null, or an object with optional memory_ids and results.
JsonNull == [isObject |-> FALSE, memory_ids |-> None, results |-> None]
JsonObject(memory_ids, results) ==
  [isObject |-> TRUE, memory_ids |-> memory_ids, results |-> results]

\* Lines 51-55: the fetch call of request(method, path, body) carries
\* response, what came back so far: nothing yet ("pending"), or the type,
\* status, body text and JSON body of the answer.
Pending == [type |-> "pending", status |-> 0, text |-> <<>>, json |-> JsonNull]

\* Lines 39-55: request(method, path, body) up to the fetch.
Request(c, method, path, body) ==
  [url      |-> <<c.baseUrl>> \o path,
   method   |-> method,
   headers  |-> Headers(c.apiKey),
   body     |-> body,
   response |-> Pending]

\* n written in w decimal digits, with leading zeros.
Pad(n, w) ==
  [i \in 1..w |->
     ToString((n \div (CASE w - i = 0 -> 1 [] w - i = 1 -> 10
                          [] w - i = 2 -> 100 [] OTHER -> 1000)) % 10)]

\* Line 74: Date.prototype.toISOString of a clock reading.  A reading is
\* held as its day since 1970-01-01 and its millisecond of that day (the
\* milliseconds since the epoch do not fit the integers of the checker);
\* its year is one of 1970..9999, which are written in four digits.
ToISOString(now) ==
  LET z == now.day + 719468
      era == z \div 146097
      doe == z - era * 146097
      yoe == (doe - doe \div 1460 + doe \div 36524 - doe \div 146096) \div 365
      doy == doe - (365 * yoe + yoe \div 4 - yoe \div 100)
      mp == (5 * doy + 2) \div 153
      d == doy - (153 * mp + 2) \div 5 + 1
      m == IF mp < 10 THEN mp + 3 ELSE mp - 9
      y == yoe + era * 400 + (IF m <= 2 THEN 1 ELSE 0)
      sec == now.ms \div 1000
  IN Pad(y, 4) \o <<"-">> \o Pad(m, 2) \o <<"-">> \o Pad(d, 2) \o <<"T">>
     \o Pad(sec \div 3600, 2) \o <<":">> \o Pad((sec \div 60) % 60, 2)
     \o <<":">> \o Pad(sec % 60, 2) \o <<".">> \o Pad(now.ms % 1000, 3)
     \o <<"Z">>

\* Lines 65-79: the request of client.retain(content, options), issued
\* when the clock reads now.
Retain(c, content, options, now) ==
  Request(c, "POST", <<"/v1/default/banks/", c.bankId, "/memories">>,
          [op    |-> "retain",
           items |-> <<[content   |-> content,
                        context   |-> options.context,
                        timestamp |-> ToISOString(now),
                        tags      |-> options.tags]>>])

\* Lines 81-98: the request of client.recall(query, options).
Recall(c, query, options) ==
  Request(c, "POST", <<"/v1/default/banks/", c.bankId, "/memories/recall">>,
          [op         |-> "recall",
           query      |-> query,
           max_tokens |-> Default(options.maxTokens, DefaultMaxTokens),
           budget     |-> "mid",
           tags       |-> options.tags])

\* Lines 51-62: how request() settles on an answer: it throws err, or
\* returns value.  String(err) is kept as the error.
Thrown(err) == [threw |-> TRUE, err |-> err, value |-> JsonNull]
Returned(value) == [threw |-> FALSE, err |-> <<>>, value |-> value]

\* Line 62: the white space JSON.parse skips before a value.
RECURSIVE SkipJsonSpace(_)
SkipJsonSpace(text) ==
  IF text # <<>> /\ Head(text) \in {" ", "\t", "\n", "\r"}
  THEN SkipJsonSpace(Tail(text))
  ELSE text

\* The literals of JSON that begin with a letter.
JsonLiterals ==
  {<<"n", "u", "l", "l">>, <<"t", "r", "u", "e">>, <<"f", "a", "l", "s", "e">>}

\* Line 62: the bodies JSON.parse names whole, without the character it
\* stopped at: undefined, NaN, Infinity and [object Object].
SpecialStrings ==
  {<<"u", "n", "d", "e", "f", "i", "n", "e", "d">>,
   <<"N", "a", "N">>,
   <<"I", "n", "f", "i", "n", "i", "t", "y">>,
   <<"[", "o", "b", "j", "e", "c", "t", " ", "O", "b", "j", "e", "c", "t", "]">>}

\* Line 62: String(err) of the SyntaxError response.json() rejects with on
\* a body that is not JSON and is shorter than 21 characters (a longer one
\* is quoted in part).  The body is read up to the first character that
\* cannot go on a JSON value: a body that ends before that is an unexpected
\* end of input; otherwise a body that is one of the special strings is
\* named alone, and any other with the character the reading stopped at.
\* The bodies covered are the special strings and those that begin, after
\* white space, with a character that starts no JSON value or with a
\* letter that starts a literal the body departs from before the
\* literal's end, the character stopped at being no digit, no minus sign
\* and no double quote (those are reported as a number or a string).
JsonSyntaxError(text) ==
  LET body == SkipJsonSpace(text)
      lits == {l \in JsonLiterals : body # <<>> /\ l[1] = body[1]}
      at == IF lits = {} THEN 1
            ELSE LET l == CHOOSE l \in lits : TRUE
                 IN CHOOSE i \in 1..(Len(l) + 1) :
                      /\ \A j \in 1..(i - 1) : j <= Len(body) /\ body[j] = l[j]
                      /\ i > Len(l) \/ i > Len(body) \/ body[i] # l[i]
  IN IF text \in SpecialStrings
     THEN <<"SyntaxError: ", "\"">> \o text \o <<"\" is not valid JSON">>
     ELSE IF at > Len(body)
     THEN <<"SyntaxError: ", "Unexpected end of JSON input">>
     ELSE <<"SyntaxError: ", "Unexpected token '", body[at], "', \"">>
          \o text \o <<"\" is not valid JSON">>

\* Settle that resolves a failed request to null in place of throwing.
SettleSwallow(answer) ==
  IF answer.type = "ok" THEN Returned(answer.json) ELSE Returned(JsonNull)

Settle(answer) ==
  IF answer.type = "transport" THEN Thrown(<<"TypeError: ", "fetch failed">>)
  ELSE IF answer.type = "status"
       THEN Thrown(<<"Error: ", "Hindsight API error (", ToString(answer.status),
                     "): ">> \o answer.text)
  ELSE IF answer.type = "badjson"
       THEN Thrown(JsonSyntaxError(answer.text))
  ELSE Returned(answer.json)

\* ------------------------------------------------------------- invocations
Slots == 1..NSlots

NoEvent == [none |-> TRUE]
NoResult == [status |-> "none"]

Warn(text) == [level |-> "warn", text |-> text]
Info(text) == [level |-> "info", text |-> text]

\* A hook's completion: it returned (optionally with a prependContext) or
\* it threw to the host.
HookReturned(prependContext) ==
  [status |-> "returned", prependContext |-> prependContext]
HookThrew(err) == [status |-> "threw", err |-> err]

\* A tool's completion: the result object of execute, or a throw.
ToolReturned(text, details) ==
  [status  |-> "returned",
   content |-> <<[type |-> "text", text |-> text]>>,
   details |-> details]
ToolThrew(err) == [status |-> "threw", err |-> err]

\* What a handler does when it completes: its completion and its log lines.
Completion(res, lines) == [result |-> res, log |-> lines]

Init ==
  /\ pluginConfig \in PluginConfigs
  /\ cfg = configSchema(pluginConfig)
  /\ kind = [s \in Slots |-> "idle"]
  /\ pc = [s \in Slots |-> "idle"]
  /\ event = [s \in Slots |-> NoEvent]
  /\ toRetain = [s \in Slots |-> <<>>]
  /\ retained = [s \in Slots |-> 0]
  /\ net = [s \in Slots |-> <<>>]
  /\ log = [s \in Slots |-> <<>>]
  /\ result = [s \in Slots |-> NoResult]

\* RegisteredHooks with both hooks registered whatever the configuration.
RegisteredAlways(c) == {"before_agent_start", "agent_end"}

\* Lines 263-264 and 293-294: the events register() puts a handler on.
RegisteredHooks(c) ==
  (IF c.autoRecall THEN {"before_agent_start"} ELSE {})
  \cup (IF c.autoRetain THEN {"agent_end"} ELSE {})

\* The invocation in slot s starts as handler k on event ev.
Start(s, k, ev) ==
  /\ pc[s] = "idle"
  /\ kind' = [kind EXCEPT ![s] = k]
  /\ event' = [event EXCEPT ![s] = ev]
  /\ UNCHANGED <<pluginConfig, cfg>>

\* Finish that completes only while no other invocation is suspended.
FinishAfterOthers(s, c) ==
  /\ \A t \in Slots \ {s} : pc[t] # "await"
  /\ pc' = [pc EXCEPT ![s] = "done"]
  /\ result' = [result EXCEPT ![s] = c.result]
  /\ log' = [log EXCEPT ![s] = @ \o c.log]

\* The invocation in slot s completes with completion c.
Finish(s, c) ==
  /\ pc' = [pc EXCEPT ![s] = "done"]
  /\ result' = [result EXCEPT ![s] = c.result]
  /\ log' = [log EXCEPT ![s] = @ \o c.log]

\* The invocation in slot s, whose earlier requests are reqs, issues request
\* r and suspends on it.
Await(s, reqs, r) ==
  /\ pc' = [pc EXCEPT ![s] = "await"]
  /\ net' = [net EXCEPT ![s] = Append(reqs, r)]
  /\ UNCHANGED <<result, log>>

\* Settled with a failed request sent once more.
SettledWithRetry(s, answer) ==
  LET last == net[s][Len(net[s])]
      answered ==
        [net[s] EXCEPT ![Len(net[s])].response =
           [type |-> answer.type, status |-> answer.status,
            text |-> answer.text, json |-> JsonNull]]
  IN IF answer.type = "ok" THEN answered ELSE Append(answered, last)

\* The requests of slot s once its pending request got the answer.  The
\* JSON body is kept for the handlers that read it; the agent_end handler
\* discards the value of client.retain (line 335).
Settled(s, answer) ==
  [net[s] EXCEPT ![Len(net[s])].response =
     [type |-> answer.type, status |-> answer.status, text |-> answer.text,
      json |-> IF answer.type = "ok" /\ kind[s] # "agent_end"
               THEN answer.json ELSE JsonNull]]

\* ------------------------------------------------------ agent_end handler
\* AgentEndNoOp without the test of event.success.
AgentEndNoOpAnyOutcome(ev) ==
  \/ ev.messages = None
  \/ Len(ev.messages[1]) = 0

\* Line 295: the guard before the try.
AgentEndNoOp(ev) ==
  \/ ~ev.success
  \/ ev.messages = None
  \/ Len(ev.messages[1]) = 0

\* Lines 336-337: the options of an automatic retain.
AutoOptions ==
  [context |-> Some("auto-captured from conversation"),
   tags    |-> Some(<<"conversation", "auto">>)]

\* Lines 342-346: after the loop.
AgentEndDone(n) ==
  Completion(HookReturned(None),
             IF n > 0
             THEN <<Info(<<"hindsight-memory: auto-retained ", ToString(n),
                           " messages">>)>>
             ELSE <<>>)

\* AgentEndCatch without the catch: the error reaches the host.
AgentEndRethrow(err) == Completion(HookThrew(err), <<>>)

\* Lines 347-351: the catch of the try around extraction and submission.
AgentEndCatch(err) ==
  Completion(HookReturned(None),
             <<Warn(<<"hindsight-memory: auto-retain failed: ">> \o err)>>)

\* Lines 294-334: the handler up to its first await; the clock reads now
\* at its call of retain.
AgentEnd(s, ev, now) ==
  /\ "agent_end" \in RegisteredHooks(cfg)
  /\ Start(s, "agent_end", ev)
  /\ retained' = [retained EXCEPT ![s] = 0]
  /\ IF AgentEndNoOp(ev)
     THEN /\ Finish(s, Completion(HookReturned(None), <<>>))
          /\ UNCHANGED <<toRetain, net>>
     ELSE LET tr == Extract(ev.messages[1])
              queue == ToSubmit(tr)
          IN /\ toRetain' = [toRetain EXCEPT ![s] = tr]
             /\ IF queue = <<>>
                THEN /\ Finish(s, AgentEndDone(0))
                     /\ UNCHANGED net
                ELSE Await(s, <<>>, Retain(cfg, queue[1], AutoOptions, now))

\* Lines 334-351: the handler from the answer to a retain to its next await
\* or its end; the clock reads now at its next call of retain.
AgentEndResume(s, answer, now) ==
  /\ kind[s] = "agent_end"
  /\ pc[s] = "await"
  /\ LET r == Settle(answer)
         queue == ToSubmit(toRetain[s])
         n == retained[s] + 1
     IN IF r.threw
        THEN /\ net' = [net EXCEPT ![s] = Settled(s, answer)]
             /\ Finish(s, AgentEndCatch(r.err))
             /\ UNCHANGED retained
        ELSE /\ retained' = [retained EXCEPT ![s] = n]
             /\ IF n < Len(queue)
                THEN Await(s, Settled(s, answer),
                           Retain(cfg, queue[n + 1], AutoOptions, now))
                ELSE /\ net' = [net EXCEPT ![s] = Settled(s, answer)]
                     /\ Finish(s, AgentEndDone(n))
  /\ UNCHANGED <<pluginConfig, cfg, kind, event, toRetain>>

\* ---------------------------------------------- before_agent_start handler
\* Array.prototype.join over texts.
RECURSIVE Join(_, _)
Join(texts, sep) ==
  IF texts = <<>> THEN <<>>
  ELSE IF Len(texts) = 1 THEN texts[1]
  ELSE texts[1] \o sep \o Join(Tail(texts), sep)

\* Reading a property of a null response (lines 149, 238, 272).
NullRead(prop) ==
  <<"TypeError: ", "Cannot read properties of null (reading '", prop, "')">>

\* BeforeAgentStartNoOp without the length test.
BeforeAgentStartNoOpEmptyOnly(ev) ==
  \/ ev.prompt = None
  \/ Len(ev.prompt[1]) = 0

\* Line 265: the guard before the try.
BeforeAgentStartNoOp(ev) ==
  \/ ev.prompt = None
  \/ Len(ev.prompt[1]) = 0
  \/ Len(ev.prompt[1]) < MinPrompt

\* MemoryContext with the results taken from the last one backwards.
MemoryContextReversed(results) ==
  Join([i \in 1..Len(Slice(results, MaxInject)) |->
          <<"- ">> \o results[Len(results) + 1 - i].content], <<"\n">>)

\* Lines 274-277: the bullets of the first results.
MemoryContext(results) ==
  Join([i \in 1..Len(Slice(results, MaxInject)) |->
          <<"- ">> \o results[i].content], <<"\n">>)

\* BeforeAgentStartCatch without the catch: the error reaches the host.
BeforeAgentStartRethrow(err) == Completion(HookThrew(err), <<>>)

\* Lines 286-288: the catch of the auto-recall handler.
BeforeAgentStartCatch(err) ==
  Completion(HookReturned(None),
             <<Warn(<<"hindsight-memory: auto-recall failed: ">> \o err)>>)

\* BeforeAgentStartDone without the return on an empty result list.
BeforeAgentStartDoneAlwaysInjects(response) ==
  IF ~response.isObject THEN BeforeAgentStartCatch(NullRead("results"))
  ELSE LET results == IF response.results = None THEN <<>>
                      ELSE response.results[1]
       IN Completion(
            HookReturned(Some(
              <<"<relevant-memories>\nThe following memories may be relevant:\n">>
              \o MemoryContext(results) \o <<"\n</relevant-memories>">>)),
            <<Info(<<"hindsight-memory: injecting ", ToString(Len(results)),
                     " memories into context">>)>>)

\* Lines 272-285: the handler after a recall that returned response.
BeforeAgentStartDone(response) ==
  IF ~response.isObject THEN BeforeAgentStartCatch(NullRead("results"))
  ELSE IF response.results = None \/ Len(response.results[1]) = 0
       THEN Completion(HookReturned(None), <<>>)
  ELSE LET results == response.results[1]
       IN Completion(
            HookReturned(Some(
              <<"<relevant-memories>\nThe following memories may be relevant:\n">>
              \o MemoryContext(results) \o <<"\n</relevant-memories>">>)),
            <<Info(<<"hindsight-memory: injecting ", ToString(Len(results)),
                     " memories into context">>)>>)

\* Lines 264-270: the handler up to its await.
BeforeAgentStart(s, ev) ==
  /\ "before_agent_start" \in RegisteredHooks(cfg)
  /\ Start(s, "before_agent_start", ev)
  /\ IF BeforeAgentStartNoOp(ev)
     THEN /\ Finish(s, Completion(HookReturned(None), <<>>))
          /\ UNCHANGED net
     ELSE Await(s, <<>>, Recall(cfg, ev.prompt[1],
                                [maxTokens |-> Some(HookMaxTokens),
                                 tags |-> None]))
  /\ UNCHANGED <<toRetain, retained>>

\* Lines 268-288: the handler from the answer to its recall to its end.
BeforeAgentStartResume(s, answer) ==
  /\ kind[s] = "before_agent_start"
  /\ pc[s] = "await"
  /\ net' = [net EXCEPT ![s] = Settled(s, answer)]
  /\ LET r == Settle(answer)
     IN Finish(s, IF r.threw THEN BeforeAgentStartCatch(r.err)
                  ELSE BeforeAgentStartDone(r.value))
  /\ UNCHANGED <<pluginConfig, cfg, kind, event, toRetain, retained>>

\* ------------------------------------------------- hindsight_recall tool
\* Line 161: the thousandths k of 0..1000 for which the double nearest to
\* k / 1000, times 100 and rounded to a double, falls below the half that k
\* stands at (0.285 * 100 is 28.499999999999996).
BelowHalf == {145, 285, 565, 575}

\* Line 161: (r.score * 100).toFixed(0), the score a double held as its
\* thousandths, of 0..1000: the nearest integer of the product, the larger
\* one at a half.
Percent(score) ==
  ToString(IF score \in BelowHalf THEN score \div 10 ELSE (score + 5) \div 10)

\* Lines 181-192: the catch of the tool.
ToolRecallCatch(err) ==
  Completion(ToolReturned(<<"Memory recall failed: ">> \o err,
                          [error |-> err]),
             <<Warn(<<"hindsight_recall failed: ">> \o err)>>)

\* Lines 149-180: the tool after a recall that returned response.
ToolRecallDone(response) ==
  IF ~response.isObject THEN ToolRecallCatch(NullRead("results"))
  ELSE IF response.results = None \/ Len(response.results[1]) = 0
       THEN Completion(ToolReturned(<<"No relevant memories found.">>,
                                    [count |-> 0]), <<>>)
  ELSE LET results == response.results[1]
           text == Join([i \in 1..Len(results) |->
                           <<ToString(i), ". ">> \o results[i].content
                           \o <<" (relevance: ", Percent(results[i].score),
                                "%)">>], <<"\n\n">>)
       IN Completion(
            ToolReturned(<<"Found ", ToString(Len(results)), " memories:\n\n">>
                         \o text,
                         [count |-> Len(results),
                          memories |-> [i \in 1..Len(results) |->
                                          [id |-> results[i].memory_id,
                                           content |-> results[i].content,
                                           score |-> results[i].score]]]),
            <<>>)

\* Lines 140-147: the tool up to its await.
ToolRecall(s, params) ==
  /\ Start(s, "hindsight_recall", params)
  /\ Await(s, <<>>, Recall(cfg, params.query,
                           [maxTokens |-> params.maxTokens, tags |-> None]))
  /\ UNCHANGED <<toRetain, retained>>

\* Lines 147-192: the tool from the answer to its recall to its end.
ToolRecallResume(s, answer) ==
  /\ kind[s] = "hindsight_recall"
  /\ pc[s] = "await"
  /\ net' = [net EXCEPT ![s] = Settled(s, answer)]
  /\ LET r == Settle(answer)
     IN Finish(s, IF r.threw THEN ToolRecallCatch(r.err)
                  ELSE ToolRecallDone(r.value))
  /\ UNCHANGED <<pluginConfig, cfg, kind, event, toRetain, retained>>

\* ------------------------------------------------- hindsight_retain tool
\* ToolRetainCatch with a fixed text in place of String(err).
ToolRetainCatchOpaque(err) ==
  Completion(ToolReturned(<<"Failed to store memory">>, [error |-> err]),
             <<Warn(<<"hindsight_retain failed: ">> \o err)>>)

\* Lines 241-252: the catch of the tool.
ToolRetainCatch(err) ==
  Completion(ToolReturned(<<"Failed to store memory: ">> \o err,
                          [error |-> err]),
             <<Warn(<<"hindsight_retain failed: ">> \o err)>>)

\* Echo with the ellipsis from the limit on, not beyond it.
EchoAtLimit(content) ==
  <<"Stored in memory: \"">> \o Slice(content, EchoLen)
  \o (IF Len(content) >= EchoLen THEN <<"...">> ELSE <<>>) \o <<"\"">>

\* Line 233: the echo of the stored content.
Echo(content) ==
  <<"Stored in memory: \"">> \o Slice(content, EchoLen)
  \o (IF Len(content) > EchoLen THEN <<"...">> ELSE <<>>) \o <<"\"">>

\* Lines 229-240: the tool after a retain that returned response.
ToolRetainDone(content, response) ==
  IF ~response.isObject THEN ToolRetainCatch(NullRead("memory_ids"))
  ELSE Completion(ToolReturned(Echo(content),
                               [action |-> "created",
                                memoryIds |-> response.memory_ids]),
                  <<>>)

\* Lines 219-227: the tool up to its await; the clock reads now at its
\* call of retain.
ToolRetain(s, params, now) ==
  /\ Start(s, "hindsight_retain", params)
  /\ Await(s, <<>>, Retain(cfg, params.content,
                           [context |-> params.context, tags |-> params.tags],
                           now))
  /\ UNCHANGED <<toRetain, retained>>

\* Lines 227-252: the tool from the answer to its retain to its end.
ToolRetainResume(s, answer) ==
  /\ kind[s] = "hindsight_retain"
  /\ pc[s] = "await"
  /\ net' = [net EXCEPT ![s] = Settled(s, answer)]
  /\ LET r == Settle(answer)
     IN Finish(s, IF r.threw THEN ToolRetainCatch(r.err)
                  ELSE ToolRetainDone(event[s].content, r.value))
  /\ UNCHANGED <<pluginConfig, cfg, kind, event, toRetain, retained>>

\* The host takes the completion of the invocation in slot s; the slot is
\* free for the next event.
Return(s) ==
  /\ pc[s] = "done"
  /\ kind' = [kind EXCEPT ![s] = "idle"]
  /\ pc' = [pc EXCEPT ![s] = "idle"]
  /\ event' = [event EXCEPT ![s] = NoEvent]
  /\ toRetain' = [toRetain EXCEPT ![s] = <<>>]
  /\ retained' = [retained EXCEPT ![s] = 0]
  /\ net' = [net EXCEPT ![s] = <<>>]
  /\ log' = [log EXCEPT ![s] = <<>>]
  /\ result' = [result EXCEPT ![s] = NoResult]
  /\ UNCHANGED <<pluginConfig, cfg>>

\* ------------------------------------------------------------------ inputs
\* All sequences over S of length at most n.
SeqsUpTo(S, n) == UNION {[1..k -> S] : k \in 0..n}

\* Strings around the length test: just long enough, long enough only
\* before trimming, exactly at the limit, below it, and blank.
LongA == Rep("a", MinLen + 1)
PaddedLongB == <<" ", "\t">> \o Rep("b", MinLen + 1) \o <<"\r", "\n">>
Ten == Rep("c", MinLen)
PaddedTen == <<"\r">> \o Rep("c", MinLen) \o <<"\f", "U+00A0">>
LongD == Rep("d", MinLen + 1)
Short == <<"U+000B">> \o Rep("s", MinLen - 1) \o <<"U+FEFF", "U+2028">>
Blank == Rep(" ", MinLen + 2)
LongE == Rep("e", MinLen + 1)

TextBlock(s) == Block(Some("text"), StrVal(s))

\* The messages a batch is made of.  LongD is the only text of messages
\* and blocks the handler must skip.
MsgPool ==
  { Message("user", StrContent(LongA)),
    Message("user", StrContent(PaddedLongB)),
    Message("user", StrContent(PaddedTen)),
    Message("assistant", StrContent(LongD)),
    Message("user", ArrContent(<<TextBlock(LongE),
                                 Block(Some("image"), Absent),
                                 TextBlock(PaddedLongB),
                                 TextBlock(Ten),
                                 TextBlock(LongA)>>)),
    Message("user", ArrContent(<<Block(Some("tool_result"), StrVal(LongD)),
                                 NullBlock,
                                 Block(Some("text"), OtherVal),
                                 Block(Some("text"), Absent),
                                 TextBlock(Blank),
                                 Block(None, StrVal(LongD))>>)),
    Message("assistant", ArrContent(<<TextBlock(LongD)>>)),
    Message("user", StrContent(Short)),
    Message("user", OtherContent),
    NullMessage }

AgentEndEvent(success, messages) ==
  [success |-> success, messages |-> messages]

\* A batch of six user messages, one more than a pass submits.
SixUsers ==
  [i \in 1..(MaxRetain + 1) |->
     Message("user", StrContent(IF i % 2 = 1 THEN LongA ELSE PaddedLongB))]

ConcAgentEndEvents ==
  { AgentEndEvent(TRUE, Some(SixUsers)),
    AgentEndEvent(TRUE, Some(<<Message("assistant", StrContent(LongD)),
                               Message("user", StrContent(LongE))>>)) }

AgentEndEvents ==
  { AgentEndEvent(ok, m) :
      ok \in BOOLEAN,
      m \in {None} \cup {Some(b) : b \in SeqsUpTo(MsgPool, MaxMsgs)} }
  \cup ConcAgentEndEvents

BeforeAgentStartEvents ==
  { [prompt |-> p] :
      p \in {None, Some(<<>>), Some(Rep("p", MinPrompt \div 2)),
             Some(Rep("p", MinPrompt - 1)),
             Some(Rep("p", MinPrompt)), Some(Rep(" ", MinPrompt + 1))} }

ToolRecallParams ==
  [query : {<<>>, Rep("q", 4)}, maxTokens : {None, Some(0), Some(500)}]

ToolRetainParams ==
  [content : {<<>>, Rep(" ", 3), Rep("s", MinLen - 1), LongA,
              <<" ">> \o LongA, Rep("x", EchoLen), Rep("x", EchoLen + 1)},
   context : {None, Some("why")},
   tags    : {None, Some(<<"preference">>)}]

\* The results the remote store answers a recall with.
ResultPool ==
  { [memory_id |-> "m1", content |-> Rep("m", 2), score |-> 873],
    [memory_id |-> "m2", content |-> Rep("n", 3), score |-> 285] }

\* Line 74: what new Date() reads at the first retain of an invocation, and
\* at a later one of a retention pass.  The wall clock promises no order
\* between two readings.
Instants ==
  {[day |-> 20757, ms |-> 0], [day |-> 19782, ms |-> 86399999]}
LaterInstants == {[day |-> 20757, ms |-> 1]}

\* A body that is not JSON.
NotJson == <<"n", "o", "t", " ", "j", "s", "o", "n">>

Failures ==
  {Transport, Status(500, <<"db down">>), BadJson(<<>>), BadJson(NotJson),
   BadJson(<<"N", "a", "N">>)}

RetainAnswers ==
  Failures \cup {Ok(JsonNull), Ok(JsonObject(None, None)),
                 Ok(JsonObject(Some(<<"id-1">>), None))}

RecallAnswers ==
  Failures \cup {Ok(JsonNull), Ok(JsonObject(None, None))}
  \cup {Ok(JsonObject(None, Some(rs))) : rs \in SeqsUpTo(ResultPool, MaxResults)}

\* ------------------------------------------- one invocation at a time
SeqSlots == {1}

\* The host calls a handler on a free slot only, so the events are drawn
\* only where one can start.
Next ==
  \E s \in SeqSlots :
    \/ pc[s] = "idle"
       /\ \E ev \in AgentEndEvents, now \in Instants : AgentEnd(s, ev, now)
    \/ \E answer \in RetainAnswers, now \in LaterInstants :
         AgentEndResume(s, answer, now)
    \/ pc[s] = "idle"
       /\ \E ev \in BeforeAgentStartEvents : BeforeAgentStart(s, ev)
    \/ \E answer \in RecallAnswers : BeforeAgentStartResume(s, answer)
    \/ pc[s] = "idle" /\ \E params \in ToolRecallParams : ToolRecall(s, params)
    \/ \E answer \in RecallAnswers : ToolRecallResume(s, answer)
    \/ pc[s] = "idle"
       /\ \E params \in ToolRetainParams, now \in Instants :
            ToolRetain(s, params, now)
    \/ \E answer \in RetainAnswers : ToolRetainResume(s, answer)
    \/ Return(s)

Spec == Init /\ [][Next]_vars

\* ------------------------------------------- interleaved invocations
ConcRetainAnswers == {Status(500, <<"db down">>), Ok(JsonObject(None, None))}

ConcRecallAnswers ==
  {Transport, Ok(JsonObject(None, Some(<<CHOOSE r \in ResultPool : TRUE>>)))}

NextConc ==
  \E s \in Slots :
    \/ \E ev \in ConcAgentEndEvents, now \in LaterInstants :
         AgentEnd(s, ev, now)
    \/ \E answer \in ConcRetainAnswers, now \in LaterInstants :
         AgentEndResume(s, answer, now)
    \/ BeforeAgentStart(s, [prompt |-> Some(Rep("p", MinPrompt))])
    \/ \E answer \in ConcRecallAnswers : BeforeAgentStartResume(s, answer)
    \/ ToolRecall(s, [query |-> Rep("q", 4), maxTokens |-> None])
    \/ \E answer \in ConcRecallAnswers : ToolRecallResume(s, answer)
    \/ \E now \in LaterInstants :
         ToolRetain(s, [content |-> Ten, context |-> None, tags |-> None], now)
    \/ \E answer \in ConcRetainAnswers : ToolRetainResume(s, answer)
    \/ Return(s)

SpecConc == Init /\ [][NextConc]_vars

\* ------------------------------------ interleaved invocations, answered
\* The request the invocation in slot s is suspended on completes or fails,
\* and the invocation runs on from its await.
Answered(s) ==
  \/ \E answer \in ConcRetainAnswers, now \in LaterInstants :
       AgentEndResume(s, answer, now)
  \/ \E answer \in ConcRecallAnswers : BeforeAgentStartResume(s, answer)
  \/ \E answer \in ConcRecallAnswers : ToolRecallResume(s, answer)
  \/ \E answer \in ConcRetainAnswers : ToolRetainResume(s, answer)

\* The credential only fills a header of the requests (lines 47-49) and
\* takes no part in how an invocation proceeds: it is left unset here.
InitLive == Init /\ pluginConfig.apiKey = None

\* Every issued request is answered in the end, each on its own.
SpecLive ==
  InitLive /\ [][NextConc]_vars /\ \A s \in Slots : WF_vars(Answered(s))

\* ================================================================== claims
\* The contents of the retain requests the invocation in slot s has issued.
RetainRequests(s) == SelectSeq(net[s], LAMBDA r : r.body.op = "retain")
Submitted(s) ==
  [i \in 1..Len(RetainRequests(s)) |-> RetainRequests(s)[i].body.items[1].content]

AgentEndSlots == {s \in Slots : kind[s] = "agent_end"}

\* C1: for every agent_end event, whatever its messages and whatever the
\* remote store answers, the auto-retain handler issues at most 5 retain
\* requests.
C1_AtMostFiveRetains ==
  \A s \in AgentEndSlots : Len(RetainRequests(s)) <= 5

\* A pass over more than 5 candidates has ended with 5 requests issued.
C1_Witness ==
  \E s \in AgentEndSlots :
    /\ pc[s] = "done"
    /\ Len(toRetain[s]) > 5
    /\ Len(RetainRequests(s)) = 5

\* The string c is the trimmed plain-string content of message m, or the
\* trimmed text of one of its blocks of type "text".
TextOf(m, c) ==
  \/ m.content.tag = "string" /\ Trim(m.content.str) = c
  \/ /\ m.content.tag = "array"
     /\ \E j \in DOMAIN m.content.blocks :
          LET b == m.content.blocks[j]
          IN /\ b.isObject
             /\ b.type = <<"text">>
             /\ b.text.tag = "string"
             /\ Trim(b.text.val) = c

\* C2: every content the auto-retain handler submits comes from a message
\* of role "user" (its plain-string content or the text of one of its
\* blocks of type "text") and has a trimmed length above 10.
C2_OnlyLongUserTexts ==
  \A s \in AgentEndSlots :
    \A i \in DOMAIN Submitted(s) :
      LET c == Submitted(s)[i]
          messages == event[s].messages[1]
      IN /\ Len(Trim(c)) > 10
         /\ \E k \in DOMAIN messages :
              /\ messages[k].isObject
              /\ messages[k].role = "user"
              /\ TextOf(messages[k], c)

\* A pass has submitted the texts of a batch that also holds a long text
\* of another role and a user text of trimmed length 10.
C2_Witness ==
  \E s \in AgentEndSlots :
    LET messages == event[s].messages[1]
    IN /\ pc[s] = "done"
       /\ Len(Submitted(s)) = 3
       /\ \E k \in DOMAIN messages :
            /\ messages[k].isObject
            /\ messages[k].role = "assistant"
            /\ TextOf(messages[k], LongD)
       /\ \E k \in DOMAIN messages :
            /\ messages[k].isObject
            /\ messages[k].role = "user"
            /\ TextOf(messages[k], Ten)

\* C3: for every agent_end event with success = false, or with an absent or
\* empty message list, the handler issues no retain request.
C3_NoRetainWithoutSuccess ==
  \A s \in AgentEndSlots :
    (\/ ~event[s].success
     \/ event[s].messages = <<>>
     \/ event[s].messages[1] = <<>>)
    => RetainRequests(s) = <<>>

\* A failed turn whose messages hold user texts worth retaining has been
\* handled.
C3_Witness ==
  \E s \in AgentEndSlots :
    /\ pc[s] = "done"
    /\ ~event[s].success
    /\ event[s].messages # <<>>
    /\ \E k \in DOMAIN event[s].messages[1] :
         LET m == event[s].messages[1][k]
         IN m.isObject /\ m.role = "user" /\ TextOf(m, LongA)
    /\ RetainRequests(s) = <<>>

\* The request in slot s that failed, if any: a transport error, a
\* non-success status, or a success status with an unreadable body.
Failed(r) == r.response.type \in {"transport", "status", "badjson"}
HasFailure(s) == \E i \in DOMAIN net[s] : Failed(net[s][i])
HasWarning(s) == \E i \in DOMAIN log[s] : log[s][i].level = "warn"

\* C4: if a retain request of an agent_end pass fails, at any position, the
\* handler logs a warning and completes normally: nothing propagates to the
\* host.
C4_RetainFailureIsolated ==
  \A s \in AgentEndSlots :
    /\ pc[s] = "done" => result[s].status = "returned"
    /\ HasFailure(s) =>
         /\ pc[s] = "done"
         /\ result[s].status = "returned"
         /\ HasWarning(s)

\* A pass has ended on the failure of its third retain request.
C4_Witness ==
  \E s \in AgentEndSlots :
    /\ pc[s] = "done"
    /\ Len(net[s]) = 3
    /\ net[s][3].response.type = "status"
    /\ net[s][1].response.type = "ok"

\* C5: if the recall request of a before_agent_start event fails, the
\* handler logs a warning, returns no prependContext and completes normally.
C5_RecallFailureIsolated ==
  \A s \in Slots :
    kind[s] = "before_agent_start" =>
      /\ pc[s] = "done" => result[s].status = "returned"
      /\ HasFailure(s) =>
           /\ pc[s] = "done"
           /\ result[s].status = "returned"
           /\ result[s].prependContext = <<>>
           /\ HasWarning(s)

\* The auto-recall handler has ended on a failed recall request.
C5_Witness ==
  \E s \in Slots :
    /\ kind[s] = "before_agent_start"
    /\ pc[s] = "done"
    /\ Len(net[s]) = 1
    /\ net[s][1].response.type = "transport"

ToolSlots == {s \in Slots : kind[s] \in {"hindsight_recall", "hindsight_retain"}}

\* C6: when the client call of a tool fails (transport error, or non-success
\* status with a body), the tool returns a normal result whose text holds
\* the error's description, the response body included, and whose details
\* is {error}; nothing is thrown to the host.
C6_ToolDegrades ==
  \A s \in ToolSlots :
    /\ pc[s] = "done" => result[s].status = "returned"
    /\ \A i \in DOMAIN net[s] :
         net[s][i].response.type \in {"transport", "status"} =>
           /\ pc[s] = "done"
           /\ result[s].status = "returned"
           /\ DOMAIN result[s].details = {"error"}
           /\ result[s].details.error # <<>>
           /\ Len(result[s].content) = 1
           /\ Contains(result[s].content[1].text, result[s].details.error)
           /\ net[s][i].response.type = "status" =>
                /\ Contains(result[s].details.error,
                            <<ToString(net[s][i].response.status)>>)
                /\ Contains(result[s].details.error, net[s][i].response.text)
           /\ net[s][i].response.type = "transport" =>
                Contains(result[s].details.error, <<"fetch failed">>)

\* The retain tool has returned after the store answered 500 "db down".
C6_Witness ==
  \E s \in ToolSlots :
    /\ kind[s] = "hindsight_retain"
    /\ pc[s] = "done"
    /\ net[s][1].response.type = "status"
    /\ net[s][1].response.status = 500
    /\ Contains(result[s].content[1].text, <<"db down">>)

\* C7 as claimed: every retain request the plugin has submitted, from the
\* auto-retain handler or from the hindsight_retain tool, carries a content
\* that is non-empty after trimming and not shorter than 10 characters.
C7_AllRetainsLong ==
  \A s \in Slots :
    \A i \in DOMAIN Submitted(s) :
      /\ Trim(Submitted(s)[i]) # <<>>
      /\ Len(Trim(Submitted(s)[i])) >= 10

\* C7, amended: every retain request of the auto-retain handler carries a
\* content that is non-empty after trimming and not shorter than 10
\* characters; the request of the hindsight_retain tool carries the tool's
\* content parameter as given, whatever its length.
C7_AutoRetainsLong ==
  /\ \A s \in AgentEndSlots :
       \A i \in DOMAIN Submitted(s) :
         /\ Trim(Submitted(s)[i]) # <<>>
         /\ Len(Trim(Submitted(s)[i])) >= 10
  /\ \A s \in Slots :
       kind[s] = "hindsight_retain" => Submitted(s) = <<event[s].content>>

\* A pass over a too-short user text and a padded long one has submitted
\* the long one, trimmed.
C7_Witness ==
  \E s \in AgentEndSlots :
    /\ pc[s] = "done"
    /\ event[s].messages # <<>>
    /\ event[s].messages[1] =
         <<Message("user", StrContent(Short)),
           Message("user", StrContent(PaddedLongB))>>
    /\ Submitted(s) = <<Trim(PaddedLongB)>>

\* The number of retain requests of slot s the store answered with success.
Succeeded(s) ==
  Cardinality({i \in DOMAIN net[s] : net[s][i].response.type = "ok"})

\* C8: a retention pass in which at least one retain request succeeded, a
\* later one failing or not, has logged the count of the retained items when
\* it finishes.
C8_CountReported ==
  \A s \in AgentEndSlots :
    (pc[s] = "done" /\ Succeeded(s) >= 1) =>
      \E j \in DOMAIN log[s] :
        Contains(log[s][j].text, <<ToString(Succeeded(s))>>)

\* The candidate texts of a message list, by position: <<k, 0>> is the
\* plain-string content of message k, <<k, j>> the text of its block j.
Qualifies(m, j) ==
  /\ m.isObject
  /\ m.role = "user"
  /\ \/ j = 0 /\ m.content.tag = "string" /\ Len(Trim(m.content.str)) > 10
     \/ /\ j >= 1
        /\ m.content.tag = "array"
        /\ m.content.blocks[j].isObject
        /\ m.content.blocks[j].type = <<"text">>
        /\ m.content.blocks[j].text.tag = "string"
        /\ Len(Trim(m.content.blocks[j].text.val)) > 10

Positions(messages) ==
  UNION {{<<k, j>> : j \in {j \in 0..Len(messages[k].content.blocks) :
                             Qualifies(messages[k], j)}} :
         k \in DOMAIN messages}

TextAt(messages, p) ==
  IF p[2] = 0 THEN Trim(messages[p[1]].content.str)
  ELSE Trim(messages[p[1]].content.blocks[p[2]].text.val)

\* The place of position p among the positions P, in message order and
\* block order.
Rank(P, p) ==
  1 + Cardinality({q \in P : q[1] < p[1] \/ (q[1] = p[1] /\ q[2] < p[2])})

\* The k-th retain request of slot s carries the k-th candidate of the
\* slot's own event.
InOwnOrder(s) ==
  LET messages == event[s].messages[1]
  IN \A i \in DOMAIN net[s] :
       \E p \in Positions(messages) :
         /\ Rank(Positions(messages), p) = i
         /\ TextAt(messages, p) = Submitted(s)[i]

\* C9: within a retention pass the k-th retain request carries the k-th
\* candidate, in message order and block order within a message, and a
\* request is issued only after the one before it has completed.
C9_PrefixInOrder ==
  \A s \in AgentEndSlots :
    /\ InOwnOrder(s)
    /\ \A i \in DOMAIN net[s] :
         i < Len(net[s]) => net[s][i].response.type # "pending"

\* A pass has submitted five texts, not all the same, the last one of them
\* still in flight.
C9_Witness ==
  \E s \in AgentEndSlots :
    /\ Len(net[s]) = 5
    /\ net[s][5].response.type = "pending"
    /\ Submitted(s)[1] # Submitted(s)[2]
    /\ Submitted(s)[2] # Submitted(s)[3]
    /\ Len(toRetain[s]) > 5

\* C10: interleaved invocations each behave as if run alone.  The requests
\* of a pass are at most 5, are the candidates of its own event in its own
\* order, and are as many as its own answers allow: up to its own first
\* failure, else all of its first 5 candidates once it is done, whatever the
\* other invocations submitted or suffered.  A tool call issues its one
\* request from its own parameters.
C10_AsIfAlone ==
  /\ \A s \in AgentEndSlots :
       LET n == IF AgentEndNoOp(event[s]) THEN 0
                ELSE Cardinality(Positions(event[s].messages[1]))
       IN /\ Len(net[s]) <= 5
          /\ Len(net[s]) <= n
          /\ InOwnOrder(s)
          /\ \A i \in DOMAIN net[s] :
               /\ Failed(net[s][i]) => i = Len(net[s]) /\ pc[s] = "done"
               /\ net[s][i].response.type = "pending" =>
                    i = Len(net[s]) /\ pc[s] = "await"
          /\ (pc[s] = "done" /\ ~HasFailure(s)) =>
               Len(net[s]) = (IF n < 5 THEN n ELSE 5)
  /\ \A s \in ToolSlots :
       /\ Len(net[s]) = 1
       /\ kind[s] = "hindsight_retain" => Submitted(s) = <<event[s].content>>
       /\ kind[s] = "hindsight_recall" => net[s][1].body.query = event[s].query

\* Two passes over the same batch of six user messages have both ended: one
\* on the failure of its second request, the other after five successes.
C10_Witness ==
  \E s \in AgentEndSlots, t \in AgentEndSlots :
    /\ s # t
    /\ event[s] = event[t]
    /\ event[s].messages # <<>>
    /\ Len(event[s].messages[1]) = 6
    /\ pc[s] = "done" /\ pc[t] = "done"
    /\ Len(net[s]) = 2 /\ Failed(net[s][2])
    /\ Len(net[t]) = 5 /\ ~HasFailure(t)
    /\ Submitted(s) = SubSeq(Submitted(t), 1, 2)

RecallHookSlots == {s \in Slots : kind[s] = "before_agent_start"}

\* C11: for every before_agent_start event whose prompt is absent or
\* shorter than 10 characters, the auto-recall handler issues no recall
\* request and returns no injection.
C11_ShortPromptNoRecall ==
  \A s \in RecallHookSlots :
    (event[s].prompt = <<>> \/ Len(event[s].prompt[1]) < 10) =>
      /\ net[s] = <<>>
      /\ pc[s] = "done"
      /\ result[s].status = "returned"
      /\ result[s].prependContext = <<>>

\* The handler has returned on a prompt of 9 characters.
C11_Witness ==
  \E s \in RecallHookSlots :
    /\ pc[s] = "done"
    /\ event[s].prompt # <<>>
    /\ Len(event[s].prompt[1]) = 9
    /\ net[s] = <<>>

RecallToolSlots == {s \in Slots : kind[s] = "hindsight_recall"}

\* The recall of slot s was answered with a JSON object holding no result:
\* an empty results list, or none.
NoResults(s) ==
  /\ net[s] # <<>>
  /\ net[s][1].response.type = "ok"
  /\ net[s][1].response.json.isObject
  /\ \/ net[s][1].response.json.results = <<>>
     \/ net[s][1].response.json.results[1] = <<>>

\* C12: when the remote store returns zero results for a recall, the hook
\* returns no prependContext, and the tool returns the "no memories found"
\* text with details count = 0 and no memories list.
C12_ZeroResults ==
  /\ \A s \in RecallHookSlots :
       NoResults(s) =>
         /\ pc[s] = "done"
         /\ result[s].status = "returned"
         /\ result[s].prependContext = <<>>
  /\ \A s \in RecallToolSlots :
       NoResults(s) =>
         /\ pc[s] = "done"
         /\ result[s].status = "returned"
         /\ Len(result[s].content) = 1
         /\ result[s].content[1].text = <<"No relevant memories found.">>
         /\ DOMAIN result[s].details = {"count"}
         /\ result[s].details.count = 0

\* The recall tool has returned on an answer with an empty results list.
C12_Witness ==
  \E s \in RecallToolSlots :
    /\ pc[s] = "done"
    /\ NoResults(s)
    /\ net[s][1].response.json.results = <<<<>>>>

\* The requests of slot s that are recalls.
RecallRequests(s) == SelectSeq(net[s], LAMBDA r : r.body.op = "recall")

\* autoRetain is enabled unless the configuration says false; autoRecall is
\* enabled only if the configuration says true.
AutoRetainEnabled == pluginConfig.autoRetain # <<FALSE>>
AutoRecallEnabled == pluginConfig.autoRecall = <<TRUE>>

\* C13: the auto-retain handler is registered only when autoRetain is
\* enabled and the auto-recall handler only when autoRecall is enabled
\* (defaults: autoRetain true, autoRecall false).  With autoRetain off no
\* agent_end handler ever runs and every retain request is a tool's; with
\* autoRecall off no before_agent_start handler ever runs, every recall
\* request is a tool's and no context is injected.
C13_HooksFollowConfig ==
  /\ "agent_end" \in RegisteredHooks(cfg) <=> AutoRetainEnabled
  /\ "before_agent_start" \in RegisteredHooks(cfg) <=> AutoRecallEnabled
  /\ ~AutoRetainEnabled =>
       \A s \in Slots :
         /\ kind[s] # "agent_end"
         /\ RetainRequests(s) # <<>> => kind[s] = "hindsight_retain"
  /\ ~AutoRecallEnabled =>
       \A s \in Slots :
         /\ kind[s] # "before_agent_start"
         /\ RecallRequests(s) # <<>> => kind[s] = "hindsight_recall"
         /\ "prependContext" \in DOMAIN result[s] =>
              result[s].prependContext = <<>>

\* Under a configuration that sets neither flag, an agent_end pass has
\* issued a retain request.
C13_Witness ==
  /\ pluginConfig.autoRetain = <<>>
  /\ pluginConfig.autoRecall = <<>>
  /\ \E s \in AgentEndSlots : pc[s] = "done" /\ Len(RetainRequests(s)) >= 1

\* The client calls the handler in slot s has made so far: one per tool
\* call, one per recall-hook run that passed its guard, and in a retention
\* pass one per retained item plus the call in flight or failed.
ClientCalls(s) ==
  IF kind[s] \in {"hindsight_recall", "hindsight_retain"} THEN 1
  ELSE IF kind[s] = "before_agent_start"
       THEN (IF event[s].prompt = <<>> \/ Len(event[s].prompt[1]) < 10
             THEN 0 ELSE 1)
  ELSE IF kind[s] = "agent_end"
       THEN retained[s] + (IF pc[s] = "await" \/ HasWarning(s) THEN 1 ELSE 0)
  ELSE 0

\* C14: every client call issues exactly one network request and the client
\* never retries: a failed request is the last one of its call, so a tool
\* call and a recall-hook run each cause exactly one request whatever the
\* outcome.
C14_OneRequestPerCall ==
  \A s \in Slots :
    /\ Len(net[s]) = ClientCalls(s)
    /\ \A i \in DOMAIN net[s] :
         /\ net[s][i].method = "POST"
         /\ Failed(net[s][i]) => i = Len(net[s]) /\ pc[s] = "done"
         /\ i < Len(net[s]) => net[s][i].response.type = "ok"

\* The recall tool has returned after its one request failed.
C14_Witness ==
  \E s \in RecallToolSlots :
    /\ pc[s] = "done"
    /\ Len(net[s]) = 1
    /\ net[s][1].response.type = "status"

\* The recall of slot s was answered with a non-empty results list.
SomeResults(s) ==
  /\ net[s] # <<>>
  /\ net[s][1].response.type = "ok"
  /\ net[s][1].response.json.isObject
  /\ net[s][1].response.json.results # <<>>
  /\ net[s][1].response.json.results[1] # <<>>

Received(s) == net[s][1].response.json.results[1]

\* The places of token mark in text, and the i-th of them.
Marks(text, mark) == {j \in DOMAIN text : text[j] = mark}
NthMark(text, mark, i) ==
  CHOOSE p \in Marks(text, mark) :
    Cardinality({q \in Marks(text, mark) : q < p}) = i - 1

\* The content c stands in text right after place p.
Follows(text, p, c) == SubSeq(text, p + 1, p + Len(c)) = c

\* C15: when the recall hook receives n > 0 results, the injected context
\* holds exactly min(n, 5) bullets, the contents of the first min(n, 5)
\* results in the order received; the tool lists all n results in the order
\* received.
C15_OrderForwarded ==
  /\ \A s \in RecallHookSlots :
       SomeResults(s) =>
         LET n == Len(Received(s))
             k == IF n < 5 THEN n ELSE 5
         IN /\ pc[s] = "done"
            /\ result[s].status = "returned"
            /\ result[s].prependContext # <<>>
            /\ LET ctx == result[s].prependContext[1]
               IN /\ Cardinality(Marks(ctx, "- ")) = k
                  /\ \A i \in 1..k :
                       LET p == NthMark(ctx, "- ", i)
                           c == Received(s)[i].content
                       IN /\ Follows(ctx, p, c)
                          /\ ctx[p + Len(c) + 1] \in
                               {"\n", "\n</relevant-memories>"}
  /\ \A s \in RecallToolSlots :
       SomeResults(s) =>
         LET n == Len(Received(s))
         IN /\ pc[s] = "done"
            /\ result[s].status = "returned"
            /\ result[s].details.count = n
            /\ Len(result[s].details.memories) = n
            /\ LET text == result[s].content[1].text
               IN /\ Cardinality(Marks(text, ". ")) = n
                  /\ \A i \in 1..n :
                       LET p == NthMark(text, ". ", i)
                       IN /\ text[p - 1] = ToString(i)
                          /\ Follows(text, p, Received(s)[i].content)
                          /\ result[s].details.memories[i].id =
                               Received(s)[i].memory_id
                          /\ result[s].details.memories[i].content =
                               Received(s)[i].content

\* The hook has injected from six results that were not received in score
\* order.
C15_Witness ==
  \E s \in RecallHookSlots :
    /\ pc[s] = "done"
    /\ SomeResults(s)
    /\ Len(Received(s)) = 6
    /\ Received(s)[1].score < Received(s)[2].score
    /\ Received(s)[5].content # Received(s)[6].content
    /\ result[s].prependContext # <<>>

\* Every request issued so far, by any invocation.
AllRequests == UNION {{net[s][i] : i \in DOMAIN net[s]} : s \in Slots}

\* C16 as stated: every request carries Authorization: Bearer {apiKey} when
\* an apiKey is configured, and no Authorization header when none is.
C16_HeaderIffConfigured ==
  \A r \in AllRequests :
    r.headers.Authorization =
      IF pluginConfig.apiKey # <<>>
      THEN <<<<"Bearer ", pluginConfig.apiKey[1]>>>>
      ELSE <<>>

\* C16 amended: every request carries Authorization: Bearer {apiKey} when a
\* non-empty apiKey is configured, and no Authorization header when the
\* apiKey is absent or the empty string.
C16_HeaderIffNonEmpty ==
  \A r \in AllRequests :
    r.headers.Authorization =
      IF pluginConfig.apiKey # <<>> /\ pluginConfig.apiKey[1] # ""
      THEN <<<<"Bearer ", pluginConfig.apiKey[1]>>>>
      ELSE <<>>

\* A retention pass has issued two requests under an empty apiKey.
C16_Witness ==
  /\ pluginConfig.apiKey = <<"">>
  /\ \E s \in AgentEndSlots : Len(net[s]) >= 2

RetainToolSlots == {s \in Slots : kind[s] = "hindsight_retain"}

\* The retain of the tool in slot s succeeded: the store answered with a
\* success status and a JSON object.
RetainSucceeded(s) ==
  /\ net[s] # <<>>
  /\ net[s][1].response.type = "ok"
  /\ net[s][1].response.json.isObject

\* C17: after a successful hindsight_retain call the one request carries
\* the input content unchanged, the echoed text shows the content unchanged
\* when its length is at most 100 and its first 100 characters followed by
\* "..." when it is longer, and the details report action "created".
C17_StoredWholeEchoedCut ==
  \A s \in RetainToolSlots :
    RetainSucceeded(s) =>
      LET c == event[s].content
          text == result[s].content[1].text
      IN /\ pc[s] = "done"
         /\ Submitted(s) = <<c>>
         /\ result[s].status = "returned"
         /\ result[s].details.action = "created"
         /\ Len(c) <= 100 =>
              text = <<"Stored in memory: \"">> \o c \o <<"\"">>
         /\ Len(c) > 100 =>
              text = <<"Stored in memory: \"">> \o SubSeq(c, 1, 100)
                     \o <<"...", "\"">>

\* A content of 101 characters was stored and echoed.
C17_Witness ==
  \E s \in RetainToolSlots :
    /\ pc[s] = "done"
    /\ RetainSucceeded(s)
    /\ Len(event[s].content) = 101
    /\ Len(result[s].content[1].text) = 103

\* C18: in a retention pass, a failed retain request is the last request of
\* the pass: when the k-th submission fails, exactly k requests were issued,
\* the k-1 before it succeeded and stay as they were answered (every request
\* of the pass is a retain, none undoes one), retained is k-1, and the pass
\* is over, so that the candidates after the k-th are never submitted.
C18_StopsAtFirstFailure ==
  \A s \in AgentEndSlots :
    \A k \in DOMAIN net[s] :
      Failed(net[s][k]) =>
        /\ Len(net[s]) = k
        /\ pc[s] = "done"
        /\ retained[s] = k - 1
        /\ \A j \in 1..(k - 1) : net[s][j].response.type = "ok"
        /\ \A j \in 1..k : /\ net[s][j].body.op = "retain"
                           /\ net[s][j].body.items[1].content =
                                ToSubmit(toRetain[s])[j]

\* The third of five submissions failed, with six candidates extracted.
C18_Witness ==
  \E s \in AgentEndSlots :
    /\ Len(toRetain[s]) = 6
    /\ Len(net[s]) = 3
    /\ Failed(net[s][3])
    /\ pc[s] = "done"

\* C19: provided every issued request is answered in the end, every
\* invocation suspended on a request finishes, whatever the other
\* invocations do.
C19_EveryInvocationFinishes ==
  \A s \in Slots : (pc[s] = "await") ~> (pc[s] = "done")

\* Two invocations are suspended at once, one of them a retention pass that
\* has stored an item already.
C19_Witness ==
  \E s, t \in Slots :
    /\ s # t
    /\ pc[s] = "await" /\ pc[t] = "await"
    /\ kind[s] = "agent_end" /\ retained[s] >= 1

====
